---- MODULE Spec2Model ----
(***************************************************************************)
(* A model of lexitheras.py: the catalog cache (_load_cache, _save_cache), *)
(* catalog acquisition (get_all_texts), text resolution (search_texts and  *)
(* the resolution part of main), the disambiguation prompt, and vocabulary *)
(* extraction (scrape_vocabulary_list).                                    *)
(*                                                                         *)
(* Python strings are TLA+ strings; Len, \o and SubSeq act on them.  Time  *)
(* is counted in whole days.                                               *)
(***************************************************************************)
EXTENDS Integers, Sequences, FiniteSets, TLC

(***************************************************************************)
(* Bounds of the model.                                                    *)
(***************************************************************************)
\* the clock runs over 0..MaxNow days
MaxNow == 8
\* at most MaxPrompts inputs are typed at one disambiguation prompt
MaxPrompts == 2
\* a vocabulary table has at most MaxRows <tr> rows, the header included
MaxRows == 3
\* the integers typed at the prompt range over -1..MaxChoice
MaxChoice == 3

(***************************************************************************)
(* Strings.                                                                *)
(***************************************************************************)
UpperCase == "ABCDEFGHIJKLMNOPQRSTUVWXYZ"

LowerCase == "abcdefghijklmnopqrstuvwxyz"

\* the character (a string of length 1) at position i of s
CharAt(s, i) == SubSeq(s, i, i)

\* each upper-case letter's lower-case letter
ToLower ==
    [c \in {CharAt(UpperCase, i) : i \in 1..Len(UpperCase)} |->
        CharAt(LowerCase, CHOOSE i \in 1..Len(UpperCase) : CharAt(UpperCase, i) = c)]

LowerChar(c) == IF c \in DOMAIN ToLower THEN ToLower[c] ELSE c

\* str.lower()
RECURSIVE lower(_)
lower(s) ==
    IF Len(s) = 0 THEN ""
    ELSE LowerChar(CharAt(s, 1)) \o lower(SubSeq(s, 2, Len(s)))

\* Python's `sub in s` on strings
Contains(sub, s) ==
    \E i \in 1..(Len(s) - Len(sub) + 1) : SubSeq(s, i, i + Len(sub) - 1) = sub

\* str.startswith
startswith(s, prefix) ==
    /\ Len(s) >= Len(prefix)
    /\ SubSeq(s, 1, Len(prefix)) = prefix

\* str.strip(), for the blank character
RECURSIVE strip(_)
strip(s) ==
    IF Len(s) = 0 THEN ""
    ELSE IF CharAt(s, 1) = " " THEN strip(SubSeq(s, 2, Len(s)))
    ELSE IF CharAt(s, Len(s)) = " " THEN strip(SubSeq(s, 1, Len(s) - 1))
    ELSE s

(***************************************************************************)
(* Python values.  A value a function returns is None, a list of text      *)
(* records, or something else (a number, a string, a dict, a list of       *)
(* non-records, ...), of which only the truth value matters here.          *)
(***************************************************************************)
None == [kind |-> "none", list |-> <<>>, truthy |-> FALSE]

ListValue(texts) == [kind |-> "list", list |-> texts, truthy |-> Len(texts) > 0]

OtherValue(b) == [kind |-> "other", list |-> <<>>, truthy |-> b]

\* bool(v), as `if cached:` and `if not matches:` take it
Truthy(v) == v.truthy

(***************************************************************************)
(* The clock and datetime.  Day d of the model is d days after the epoch   *)
(* 2024-01-01T00:00:00; a timedelta is a number of days.                   *)
(***************************************************************************)
\* the days isoformat can print: the epoch's month
IsoDays == 0..30

TwoDigits(n) == IF n < 10 THEN "0" \o ToString(n) ELSE ToString(n)

\* datetime.isoformat()
isoformat(d) == "2024-01-" \o TwoDigits(d + 1) \o "T00:00:00"

\* the strings isoformat prints
IsoStrings == [d \in IsoDays |-> isoformat(d)]

\* datetime.fromisoformat(s) raises ValueError on a string that is no date
IsIsoFormat(s) == \E d \in IsoDays : IsoStrings[d] = s

fromisoformat(s) == CHOOSE d \in IsoDays : IsoStrings[d] = s

\* self.cache_duration = timedelta(days=7)
cache_duration == 7

(***************************************************************************)
(* The cache file ~/.lexitheras_cache.json.  state says what open() and    *)
(* json.load() make of it: "missing" (os.path.exists is false),            *)
(* "unreadable" (open raises), "unparsable" (json.load raises),            *)
(* "nonobject" (JSON, but no object) or "object".  For an object,          *)
(* timestamp and texts are its two members: "absent", a string ("str"), a  *)
(* list of text records ("list") or any other JSON value ("other").        *)
(***************************************************************************)
AbsentMember == [kind |-> "absent", str |-> "", list |-> <<>>, truthy |-> FALSE]

StrMember(s) == [kind |-> "str", str |-> s, list |-> <<>>, truthy |-> Len(s) > 0]

ListMember(texts) == [kind |-> "list", str |-> "", list |-> texts, truthy |-> Len(texts) > 0]

OtherMember(b) == [kind |-> "other", str |-> "", list |-> <<>>, truthy |-> b]

NoObject(state) == [state |-> state, timestamp |-> AbsentMember, texts |-> AbsentMember]

ObjectFile(ts, texts) == [state |-> "object", timestamp |-> ts, texts |-> texts]

\* cache['texts'] as a Python value
MemberValue(m) ==
    IF m.kind = "list" THEN ListValue(m.list) ELSE OtherValue(m.truthy)

\* IsFresh with <= for <: a cache exactly cache_duration old still counts
IsFreshInclusive(now, cache_time) == now - cache_time <= cache_duration

\* datetime.now() - cache_time < self.cache_duration
IsFresh(now, cache_time) == now - cache_time < cache_duration

\* _load_cache: every exception inside the try is swallowed by the bare
\* except, and the function falls through to `return None`
_load_cache(file, now) ==
    IF file.state = "missing" THEN None
    ELSE IF file.state # "object" THEN None          \* open / json.load / cache[...] raises
    ELSE IF file.timestamp.kind = "absent" THEN None \* KeyError
    ELSE IF file.timestamp.kind # "str" THEN None    \* TypeError
    ELSE IF ~IsIsoFormat(file.timestamp.str) THEN None \* ValueError
    ELSE IF IsFresh(now, fromisoformat(file.timestamp.str))
         THEN IF file.texts.kind = "absent" THEN None \* KeyError
              ELSE MemberValue(file.texts)
    ELSE None

\* _save_cache: open(..., 'w') raises when the path cannot be written, and
\* nothing catches it; otherwise the file is overwritten
_save_cache(file, now, texts, writable) ==
    IF writable
    THEN [raised |-> FALSE,
          file |-> ObjectFile(StrMember(isoformat(now)), ListMember(texts))]
    ELSE [raised |-> TRUE, file |-> file]

(***************************************************************************)
(* The editions page and its parse (get_all_texts).  The page is the       *)
(* sequence soup.find_all(['h4', 'a']) yields: elements in document order, *)
(* each with its tag name, its text and, for an anchor, its href.          *)
(***************************************************************************)
base_url == "https://vocab.perseus.org"

H4(text) == [name |-> "h4", text |-> text, href |-> ""]

A(text, href) == [name |-> "a", text |-> text, href |-> href]

UrnPattern == "word-list/urn:cts:greekLit:"

\* the places where re.search(r'word-list/(urn:cts:greekLit:[^/]+)', href)
\* can match: the literal part, then at least one character that is no '/'
MatchStarts(href) ==
    {i \in 1..Len(href) :
        /\ i + Len(UrnPattern) <= Len(href)
        /\ SubSeq(href, i, i + Len(UrnPattern) - 1) = UrnPattern
        /\ CharAt(href, i + Len(UrnPattern)) # "/"}

\* the longest run of characters that are no '/', from position i on
RECURSIVE NoSlashRun(_, _)
NoSlashRun(s, i) ==
    IF i > Len(s) \/ CharAt(s, i) = "/" THEN ""
    ELSE CharAt(s, i) \o NoSlashRun(s, i + 1)

\* urn_match.group(1) of the leftmost match
UrnGroup(href) ==
    LET i == CHOOSE k \in MatchStarts(href) : \A j \in MatchStarts(href) : k <= j
    IN  "urn:cts:greekLit:" \o NoSlashRun(href, i + Len(UrnPattern))

\* urljoin(self.base_url, href): an absolute URL stays, an absolute path
\* replaces the (empty) path of base_url, anything else is relative to it
urljoin(base, href) ==
    IF startswith(href, "http://") \/ startswith(href, "https://") THEN href
    ELSE IF startswith(href, "/") THEN base \o href
    ELSE base \o "/" \o href

\* the loop over soup.find_all(['h4', 'a']), from element i on, with the
\* current author (None is "" here: `current_author or 'Unknown'` treats
\* the two alike) and the texts collected so far
RECURSIVE ParseFrom(_, _, _, _)
ParseFrom(page, i, current_author, texts) ==
    IF i > Len(page) THEN texts
    ELSE LET element == page[i] IN
         IF element.name = "h4"
         THEN ParseFrom(page, i + 1, strip(element.text), texts)
         ELSE IF element.name = "a" /\ Contains("/word-list/", element.href)
                 /\ MatchStarts(element.href) # {}
         THEN ParseFrom(page, i + 1, current_author,
                  Append(texts,
                      [author |-> IF current_author = "" THEN "Unknown"
                                  ELSE current_author,
                       title |-> strip(element.text),
                       urn |-> UrnGroup(element.href),
                       url |-> urljoin(base_url, element.href)]))
         ELSE ParseFrom(page, i + 1, current_author, texts)

ParsePage(page) == ParseFrom(page, 1, "", <<>>)

(***************************************************************************)
(* get_all_texts.  response is what self.session.get(url) gives: ok is     *)
(* FALSE when the request or raise_for_status() raises.  The result says   *)
(* whether the call returned or raised, the value returned, the cache file *)
(* afterwards, what _load_cache gave, whether the page was requested and   *)
(* the cache written, and the exception that left the call, if any.        *)
(***************************************************************************)
\* `if cached:`
CacheHit(cached) == Truthy(cached)

get_all_texts(file, now, response, writable) ==
    LET cached == _load_cache(file, now) IN
    IF CacheHit(cached)
    THEN [outcome |-> "returned", value |-> cached, file |-> file, cached |-> cached,
          fetched |-> FALSE, saved |-> FALSE, error |-> "none"]
    ELSE IF ~response.ok
    THEN [outcome |-> "raised", value |-> None, file |-> file, cached |-> cached,
          fetched |-> TRUE, saved |-> FALSE, error |-> "RequestException"]
    ELSE LET texts == ParsePage(response.page)
             save == _save_cache(file, now, texts, writable)
         IN  IF save.raised
             THEN [outcome |-> "raised", value |-> None, file |-> save.file,
                   cached |-> cached, fetched |-> TRUE, saved |-> FALSE,
                   error |-> "OSError"]
             ELSE [outcome |-> "returned", value |-> ListValue(texts),
                   file |-> save.file, cached |-> cached, fetched |-> TRUE,
                   saved |-> TRUE, error |-> "none"]

(***************************************************************************)
(* The pages the editions endpoint serves in this model.                   *)
(***************************************************************************)
IliadHref == "/word-list/urn:cts:greekLit:tlg0012.tlg001.perseus-grc2/"

OdysseyHref == "/word-list/urn:cts:greekLit:tlg0012.tlg002.perseus-grc2/"

IliasHref == "/word-list/urn:cts:greekLit:tlg0012.tlg001.perseus-grc1/?page=all"

\* no vocabulary link at all: an empty catalog
PageNoLinks == << H4("Homer"), A("About", "/about/") >>

\* one author, two works
PageHomer == << H4(" Homer "), A("Iliad", IliadHref), A("Odyssey ", OdysseyHref) >>

\* a link before any heading, links that are skipped, a second author
PageMixed ==
    << A("Ilias", IliasHref), A("Home", "/"), A("Broken", "/word-list/other/"),
       H4("Homer"), A("Iliad", IliadHref) >>

Pages == {PageNoLinks, PageHomer, PageMixed}

Responses == {[ok |-> FALSE, page |-> <<>>]} \cup {[ok |-> TRUE, page |-> p] : p \in Pages}

(***************************************************************************)
(* search_texts.                                                           *)
(***************************************************************************)
\* the dict `variations`, in its insertion order
variations ==
    << [key |-> "iliad", variants |-> <<"iliad", "ilias">>],
       [key |-> "odyssey", variants |-> <<"odyssey", "odyssea">>],
       [key |-> "anabasis", variants |-> <<"anabasis", "anab">>],
       [key |-> "symposium", variants |-> <<"symposium", "symp">>],
       [key |-> "republic", variants |-> <<"republic", "politeia", "res publica">>],
       [key |-> "homer", variants |-> <<"homer", "homerus">>],
       [key |-> "plato", variants |-> <<"plato", "platon">>],
       [key |-> "xenophon", variants |-> <<"xenophon", "xenophon">>] >>

\* InList looking at the first item only: the query must be the key itself
IsFirst(item, list) == Len(list) > 0 /\ list[1] = item

\* Python's `item in list`
InList(item, list) == \E i \in 1..Len(list) : list[i] = item

\* query_lower in text['title'].lower() or query_lower in text['author'].lower()
ExactMatch(query_lower, text) ==
    \/ Contains(query_lower, lower(text.title))
    \/ Contains(query_lower, lower(text.author))

\* any(v in text['title'].lower() or v in text['author'].lower()
\*     for v in [key] + variants)
VariantMatch(entry, text) ==
    LET vs == <<entry.key>> \o entry.variants
    IN  \E i \in 1..Len(vs) :
            \/ Contains(vs[i], lower(text.title))
            \/ Contains(vs[i], lower(text.author))

\* the first loop: `for text in texts: if ...: matches.append(text)`
RECURSIVE ExactPass(_, _, _, _)
ExactPass(texts, query_lower, i, matches) ==
    IF i > Len(texts) THEN matches
    ELSE ExactPass(texts, query_lower, i + 1,
             IF ExactMatch(query_lower, texts[i])
             THEN Append(matches, texts[i]) ELSE matches)

\* the inner loop of the fuzzy pass, for one entry of variations
RECURSIVE VariantPass(_, _, _, _)
VariantPass(texts, entry, i, matches) ==
    IF i > Len(texts) THEN matches
    ELSE VariantPass(texts, entry, i + 1,
             IF VariantMatch(entry, texts[i])
             THEN Append(matches, texts[i]) ELSE matches)

\* `for key, variants in variations.items(): if query_lower in variants: ...`
RECURSIVE FuzzyPass(_, _, _, _)
FuzzyPass(texts, query_lower, k, matches) ==
    IF k > Len(variations) THEN matches
    ELSE FuzzyPass(texts, query_lower, k + 1,
             IF InList(query_lower, variations[k].variants)
             THEN VariantPass(texts, variations[k], 1, matches)
             ELSE matches)

\* NeedsFuzzy without its test: the fuzzy pass always runs
AlwaysFuzzy(matches) == TRUE

\* `if not matches:` the fuzzy pass runs
NeedsFuzzy(matches) == Len(matches) = 0

\* search_texts on the list get_all_texts returned: the matches, and
\* whether the variations table was consulted
search_texts(texts, query) ==
    LET query_lower == lower(query)
        exact == ExactPass(texts, query_lower, 1, <<>>)
    IN  IF NeedsFuzzy(exact)
        THEN [matches |-> FuzzyPass(texts, query_lower, 1, exact), fuzzy |-> TRUE]
        ELSE [matches |-> exact, fuzzy |-> FALSE]

(***************************************************************************)
(* scrape_vocabulary_list.  A table is the sequence table.find_all('tr'),  *)
(* each row the sequence of the texts of its <td> cells.                   *)
(***************************************************************************)
\* RowRank counting the items emitted so far instead of the rows
RowRankEmitted(idx, vocab_items) == Len(vocab_items) + 1

\* the rank given to the row at position idx of enumerate(rows, 1)
RowRank(idx, vocab_items) == idx

\* `for idx, row in enumerate(rows, 1)`, from position idx on
RECURSIVE ScrapeRows(_, _, _)
ScrapeRows(rows, idx, vocab_items) ==
    IF idx > Len(rows) THEN vocab_items
    ELSE LET cells == rows[idx] IN
         ScrapeRows(rows, idx + 1,
             IF Len(cells) >= 2
             THEN Append(vocab_items,
                      [rank |-> RowRank(idx, vocab_items),
                       word |-> strip(cells[1]),
                       lemma |-> strip(cells[1]),
                       translation |-> strip(cells[2])])
             ELSE vocab_items)

\* table.find_all('tr')[1:]
SkipHeader(table) == IF Len(table) = 0 THEN <<>> ELSE Tail(table)

scrape_vocabulary_list(table) == ScrapeRows(SkipHeader(table), 1, <<>>)

\* AnkiDeckCreator.add_vocabulary_items: one note per item
RECURSIVE add_vocabulary_items(_, _)
add_vocabulary_items(notes, vocab_items) ==
    IF Len(vocab_items) = 0 THEN notes
    ELSE LET item == Head(vocab_items) IN
         add_vocabulary_items(
             Append(notes, <<item.word, item.translation, item.lemma, ToString(item.rank)>>),
             Tail(vocab_items))

(***************************************************************************)
(* The state: what outlives a run (the cache file, the clock), and one run *)
(* of main.                                                                *)
(***************************************************************************)
VARIABLES
    file,             \* the cache file
    now,              \* datetime.now(), in days
    pc,               \* where main is: "idle" (no run), "prompt" (in the
                      \* `while True` loop), "scrape" (resolved, before
                      \* scrape_vocabulary_list), "done" (returned),
                      \* "no_match" and "scrape_error" (click.Abort),
                      \* "crashed" (an exception left main)
    text_identifier,  \* main's arguments
    list_texts,
    search_only,
    call,             \* the run's call of get_all_texts, if it made one
    matches,          \* search_texts's result
    fuzzy,            \* whether search_texts consulted `variations`
    selected_text,    \* None is NoText
    text_urn,
    prompts,          \* inputs typed at the prompt so far
    choice,           \* the last input typed at the prompt
    table,            \* the vocabulary table the scraper was served
    vocab_items,
    notes             \* the deck's notes

vars == <<file, now, pc, text_identifier, list_texts, search_only, call, matches,
          fuzzy, selected_text, text_urn, prompts, choice, table, vocab_items, notes>>

runVars == <<text_identifier, list_texts, search_only, call, matches, fuzzy,
             selected_text, text_urn, prompts, choice, table, vocab_items, notes>>

NoText == [author |-> "", title |-> "", urn |-> "", url |-> ""]

NoCall == [made |-> FALSE, before |-> NoObject("missing"),
           result |-> [outcome |-> "none", value |-> None, file |-> NoObject("missing"),
                       cached |-> None, fetched |-> FALSE, saved |-> FALSE,
                       error |-> "none"]]

NoInput == [kind |-> "none", n |-> 0]

\* what can be typed at the prompt: an integer, something that is no
\* integer, or the end of the input
PromptInputs ==
    {[kind |-> "int", n |-> n] : n \in -1..MaxChoice}
        \cup {[kind |-> "text", n |-> 0], [kind |-> "eof", n |-> 0]}

\* main's text_identifier arguments
Identifiers ==
    {"iliad", "ilias", "HOMER", "homerus", "zeus",
     "urn:cts:greekLit:tlg0012.tlg001.perseus-grc2"}

\* identifiers that are URNs, one of them of no text of the catalog
UrnIdentifiers ==
    {"urn:cts:greekLit:tlg0012.tlg001.perseus-grc2", "urn:cts:greekLit:tlg9999"}

\* what another program, or the user, can leave at the cache path; files
\* with a well-formed content come from _save_cache
TamperedFiles(today) ==
    LET texts == ListMember(ParsePage(PageHomer)) IN
    { NoObject("missing"), NoObject("unreadable"), NoObject("unparsable"),
      NoObject("nonobject"),
      ObjectFile(AbsentMember, texts),
      ObjectFile(OtherMember(TRUE), texts),
      ObjectFile(StrMember("last week"), texts),
      ObjectFile(StrMember(isoformat(today)), AbsentMember),
      ObjectFile(StrMember(isoformat(today)), OtherMember(TRUE)),
      ObjectFile(StrMember(isoformat(today)), OtherMember(FALSE)) }

\* the cells of a table row; a row of <th> cells has no <td>
Rows == { <<>>, <<"only">>, <<" menin ", "wrath">>, <<"thea", "", "3">> }

RECURSIVE SeqsUpTo(_, _)
SeqsUpTo(S, n) ==
    IF n = 0 THEN {<<>>}
    ELSE LET shorter == SeqsUpTo(S, n - 1)
         IN  shorter \cup {Append(q, e) : q \in {r \in shorter : Len(r) = n - 1}, e \in S}

\* every table of at most MaxRows rows
Tables == SeqsUpTo(Rows, MaxRows)

\* two tables: a header and one row, a header and a short row before a
\* full one
SomeTables ==
    { << <<>>, <<" menin ", "wrath">> >>,
      << <<>>, <<"only">>, <<"thea", "", "3">> >> }

\* the vocabulary page: the request fails, the page has no word-list
\* table, or it has one of `tables`
VocabResponses(tables) ==
    {[ok |-> FALSE, found |-> FALSE, table |-> <<>>],
     [ok |-> TRUE, found |-> FALSE, table |-> <<>>]}
        \cup {[ok |-> TRUE, found |-> TRUE, table |-> t] : t \in tables}

Init ==
    /\ file = NoObject("missing")
    /\ now = 0
    /\ pc = "idle"
    /\ text_identifier = ""
    /\ list_texts = FALSE
    /\ search_only = FALSE
    /\ call = NoCall
    /\ matches = <<>>
    /\ fuzzy = FALSE
    /\ selected_text = NoText
    /\ text_urn = ""
    /\ prompts = 0
    /\ choice = NoInput
    /\ table = <<>>
    /\ vocab_items = <<>>
    /\ notes = <<>>

(***************************************************************************)
(* main, up to the prompt or to the scrape.                                *)
(***************************************************************************)
\* IsUrn with the prefix misspelt in lower case
IsUrnLowerCase(identifier) ==
    Len(identifier) > 0 /\ startswith(identifier, "urn:cts:greeklit:")

\* text_identifier and text_identifier.startswith('urn:cts:greekLit:')
IsUrn(identifier) == Len(identifier) > 0 /\ startswith(identifier, "urn:cts:greekLit:")

\* iterating over what get_all_texts returned raises unless it is a list of
\* text records
Iterable(value) == value.kind = "list"

\* SingleMatch with >= for ==: the first of several matches is taken
AnyMatch(m) == Len(m) >= 1

\* len(matches) == 1
SingleMatch(m) == Len(m) = 1

\* lines 243-304 up to the first prompt: where main is afterwards and what
\* it holds
Resolve(identifier, lt, so, f, today, response, writable) ==
    LET r == get_all_texts(f, today, response, writable)
        made == [made |-> TRUE, before |-> f, result |-> r]
        base == [pc |-> "done", call |-> NoCall, file |-> f, matches |-> <<>>,
                 fuzzy |-> FALSE, selected_text |-> NoText, text_urn |-> ""]
    IN  IF lt
        THEN [base EXCEPT !.call = made, !.file = r.file,
                          !.pc = IF r.outcome = "raised" \/ ~Iterable(r.value)
                                 THEN "crashed" ELSE "done"]
        ELSE IF IsUrn(identifier)
        THEN [base EXCEPT !.text_urn = identifier,
                          !.pc = IF so THEN "done" ELSE "scrape"]
        ELSE IF r.outcome = "raised" \/ ~Iterable(r.value)
        THEN [base EXCEPT !.call = made, !.file = r.file, !.pc = "crashed"]
        ELSE LET found == search_texts(r.value.list, identifier)
                 m == found.matches
                 searched == [base EXCEPT !.call = made, !.file = r.file,
                                          !.matches = m, !.fuzzy = found.fuzzy]
             IN  IF Len(m) = 0 THEN [searched EXCEPT !.pc = "no_match"]
                 ELSE IF SingleMatch(m)
                 THEN [searched EXCEPT !.selected_text = m[1], !.text_urn = m[1].urn,
                                       !.pc = IF so THEN "done" ELSE "scrape"]
                 ELSE [searched EXCEPT !.pc = IF so THEN "done" ELSE "prompt"]

Main(identifier, lt, so, response, writable) ==
    /\ pc = "idle"
    /\ \E r \in {Resolve(identifier, lt, so, file, now, response, writable)} :
        /\ pc' = r.pc
        /\ call' = r.call
        /\ file' = r.file
        /\ matches' = r.matches
        /\ fuzzy' = r.fuzzy
        /\ selected_text' = r.selected_text
        /\ text_urn' = r.text_urn
    /\ text_identifier' = identifier
    /\ list_texts' = lt
    /\ search_only' = so
    /\ UNCHANGED <<now, prompts, choice, table, vocab_items, notes>>

(***************************************************************************)
(* The disambiguation loop: one input typed at click.prompt.               *)
(***************************************************************************)
\* 1 <= choice <= len(matches), for an input click converted to an int
ValidChoice(input, count) == input.kind = "int" /\ 1 <= input.n /\ input.n <= count

\* ChoiceIndex without the - 1
ChoiceIndexOff(n) == n

\* the index in matches[choice - 1]
ChoiceIndex(n) == n - 1

\* the list index is in range (else IndexError, which the bare except takes
\* for an invalid input); Python counts a negative index from the end
InRange(index, count) == -count <= index /\ index < count

ListItem(list, index) == IF index >= 0 THEN list[index + 1] ELSE list[Len(list) + index + 1]

Prompt(input) ==
    /\ pc = "prompt"
    /\ choice' = input
    /\ IF ValidChoice(input, Len(matches)) /\ InRange(ChoiceIndex(input.n), Len(matches))
       THEN /\ selected_text' = ListItem(matches, ChoiceIndex(input.n))
            /\ text_urn' = ListItem(matches, ChoiceIndex(input.n)).urn
            /\ pc' = "scrape"
            /\ prompts' = IF prompts < MaxPrompts THEN prompts + 1 ELSE prompts
       ELSE /\ prompts < MaxPrompts
            /\ prompts' = prompts + 1
            /\ UNCHANGED <<selected_text, text_urn, pc>>
    /\ UNCHANGED <<file, now, text_identifier, list_texts, search_only, call, matches,
                   fuzzy, table, vocab_items>>
    /\ UNCHANGED notes

(***************************************************************************)
(* main from `click.echo(f"Scraping vocabulary for {text_urn}...")` on.    *)
(***************************************************************************)
Scrape(response) ==
    /\ pc = "scrape"
    /\ IF response.ok /\ response.found
       THEN /\ table' = response.table
            /\ vocab_items' = scrape_vocabulary_list(response.table)
            /\ notes' = add_vocabulary_items(<<>>, scrape_vocabulary_list(response.table))
            /\ pc' = "done"
       ELSE /\ pc' = "scrape_error"
            /\ UNCHANGED <<table, vocab_items, notes>>
    /\ UNCHANGED <<file, now, text_identifier, list_texts, search_only, call, matches,
                   fuzzy, selected_text, text_urn, prompts, choice>>

(***************************************************************************)
(* Between runs: the process ends, time passes, the cache file is changed  *)
(* from outside.                                                           *)
(***************************************************************************)
Exit ==
    /\ pc \in {"done", "no_match", "scrape_error", "crashed"}
    /\ pc' = "idle"
    /\ text_identifier' = ""
    /\ list_texts' = FALSE
    /\ search_only' = FALSE
    /\ call' = NoCall
    /\ matches' = <<>>
    /\ fuzzy' = FALSE
    /\ selected_text' = NoText
    /\ text_urn' = ""
    /\ prompts' = 0
    /\ choice' = NoInput
    /\ table' = <<>>
    /\ vocab_items' = <<>>
    /\ notes' = <<>>
    /\ UNCHANGED <<file, now>>

Tick ==
    /\ pc = "idle"
    /\ now < MaxNow
    /\ now' = now + 1
    /\ UNCHANGED <<file, pc>>
    /\ UNCHANGED runVars

Tamper(content) ==
    /\ pc = "idle"
    /\ file' = content
    /\ UNCHANGED <<now, pc>>
    /\ UNCHANGED runVars

Next ==
    \/ \E identifier \in Identifiers, lt \in BOOLEAN, so \in BOOLEAN,
          response \in Responses, writable \in BOOLEAN :
            Main(identifier, lt, so, response, writable)
    \/ \E input \in PromptInputs : Prompt(input)
    \/ \E response \in VocabResponses(SomeTables) : Scrape(response)
    \/ Exit
    \/ Tick
    \/ \E content \in TamperedFiles(now) : Tamper(content)

Spec == Init /\ [][Next]_vars

(***************************************************************************)
(* The runs that are given a URN, with every vocabulary table of at most   *)
(* MaxRows rows.                                                           *)
(***************************************************************************)
NextScrape ==
    \/ \E identifier \in UrnIdentifiers, so \in BOOLEAN, response \in Responses :
            Main(identifier, FALSE, so, response, TRUE)
    \/ \E response \in VocabResponses(Tables) : Scrape(response)
    \/ Exit

SpecScrape == Init /\ [][NextScrape]_vars

(***************************************************************************)
(* What the properties below speak of.                                     *)
(***************************************************************************)
\* a cache file as _save_cache writes it: an object with an ISO timestamp
\* and a list of texts
WellFormed(f) ==
    /\ f.state = "object"
    /\ f.timestamp.kind = "str"
    /\ IsIsoFormat(f.timestamp.str)
    /\ f.texts.kind = "list"

\* the age in days, at the run's time, of a well-formed cache file
Age(f) == now - fromisoformat(f.timestamp.str)

\* sub occurs in s
Occurs(sub, s) == \E i \in 0..(Len(s) - Len(sub)) : SubSeq(s, i + 1, i + Len(sub)) = sub

\* the run searched the catalog get_all_texts returned
Searched ==
    /\ pc # "idle"
    /\ ~list_texts
    /\ call.made
    /\ call.result.outcome = "returned"
    /\ call.result.value.kind = "list"

\* the catalog the run searched
Catalog == call.result.value.list

\* the entries of texts whose lower-case title or author contains one of
\* the strings of the set subs, in the order of texts
Containing(texts, subs) ==
    LET Hit(t) == \E u \in subs : Occurs(u, lower(t.title)) \/ Occurs(u, lower(t.author))
    IN  SelectSeq(texts, Hit)

\* the key and the variants of each alias whose variants include q
AliasStrings(q) ==
    UNION { {variations[k].key} \cup {variations[k].variants[j] : j \in 1..Len(variations[k].variants)} :
            k \in {i \in 1..Len(variations) :
                     \E j \in 1..Len(variations[i].variants) : variations[i].variants[j] = q} }

\* a is b with some entries left out
RECURSIVE IsSubseq(_, _)
IsSubseq(a, b) ==
    IF Len(a) = 0 THEN TRUE
    ELSE IF Len(b) = 0 THEN FALSE
    ELSE IF Head(a) = Head(b) THEN IsSubseq(Tail(a), Tail(b))
    ELSE IsSubseq(a, Tail(b))

\* the positions, among the rows after the header, of the rows with at
\* least two cells
FullRows(t) == {k \in 1..(Len(t) - 1) : Len(t[k + 1]) >= 2}

\* the input typed last is an integer from 1 to count
InputValid(input, count) == input.kind = "int" /\ input.n \in 1..count

(***************************************************************************)
(* C1.  Cache TTL: when the cache file is one _save_cache wrote at time T  *)
(* with catalog C, _load_cache returns C if now - T < 7 days and None if   *)
(* now - T >= 7 days, the boundary of exactly 7 days included.             *)
(***************************************************************************)
C1_CacheTTL ==
    (call.made /\ WellFormed(call.before)) =>
        /\ Age(call.before) < 7 => call.result.cached = ListValue(call.before.texts.list)
        /\ Age(call.before) >= 7 => call.result.cached = None

\* a non-empty catalog saved exactly 7 days before is not returned
C1_Witness ==
    /\ call.made
    /\ WellFormed(call.before)
    /\ Len(call.before.texts.list) > 0
    /\ Age(call.before) = 7
    /\ call.result.cached = None

(***************************************************************************)
(* C2.  Cache corruption tolerance: for every malformed content of the     *)
(* cache file (unparsable, no object, timestamp missing or unparsable,     *)
(* texts missing or ill-typed), _load_cache returns None.                  *)
(***************************************************************************)
C2_CorruptionTolerance ==
    (call.made /\ call.before.state # "missing" /\ ~WellFormed(call.before)) =>
        call.result.cached = None

(***************************************************************************)
(* C3.  Rank monotonicity as claimed: for a table with N rows of at least  *)
(* two cells after the header, scrape_vocabulary_list returns N items      *)
(* whose ranks are 1..N in order; a skipped row consumes no rank.          *)
(***************************************************************************)
C3_RanksAreOneToN ==
    /\ Len(vocab_items) = Cardinality(FullRows(table))
    /\ \A i \in 1..Len(vocab_items) : vocab_items[i].rank = i

(***************************************************************************)
(* C3, amended.  scrape_vocabulary_list returns N items in source order;   *)
(* the rank of each is the position of its row among all the rows after    *)
(* the header, so ranks increase strictly and a skipped row does consume a *)
(* rank.                                                                   *)
(***************************************************************************)
C3_RanksAreRowPositions ==
    /\ Len(vocab_items) = Cardinality(FullRows(table))
    /\ {vocab_items[i].rank : i \in 1..Len(vocab_items)} = FullRows(table)
    /\ \A i \in 1..Len(vocab_items) : \A j \in 1..Len(vocab_items) :
            i < j => vocab_items[i].rank < vocab_items[j].rank
    /\ \A i \in 1..Len(vocab_items) :
            /\ vocab_items[i].word = strip(table[vocab_items[i].rank + 1][1])
            /\ vocab_items[i].translation = strip(table[vocab_items[i].rank + 1][2])

\* a row of one cell before a row of two: the one item has rank 2
C3_Witness ==
    /\ pc = "done"
    /\ Len(table) = 3
    /\ Len(table[2]) = 1
    /\ Len(table[3]) = 2
    /\ Len(vocab_items) = 1
    /\ vocab_items[1].rank = 2

(***************************************************************************)
(* C4.  Well-known identifier bypass as claimed: in a run whose identifier *)
(* starts with urn:cts:greekLit: the identifier is the resolved URN and    *)
(* the catalog is never accessed (no cache load, no fetch, no cache save). *)
(***************************************************************************)
C4_UrnBypass ==
    (pc # "idle" /\ startswith(text_identifier, "urn:cts:greekLit:")) =>
        /\ call = NoCall
        /\ text_urn = text_identifier

(***************************************************************************)
(* C4, amended.  The same, for the runs without --list-texts.              *)
(***************************************************************************)
C4_UrnBypassUnlessListing ==
    (pc # "idle" /\ ~list_texts /\ startswith(text_identifier, "urn:cts:greekLit:")) =>
        /\ call = NoCall
        /\ text_urn = text_identifier
        /\ selected_text = NoText
        /\ pc # "crashed"

\* a run given a URN has extracted a vocabulary without a catalog access
C4_Witness ==
    /\ pc = "done"
    /\ ~list_texts
    /\ startswith(text_identifier, "urn:cts:greekLit:")
    /\ Len(vocab_items) > 0
    /\ call = NoCall

(***************************************************************************)
(* C5.  Exact-match precedence: when some entry's title or author contains *)
(* the lower-case query, the result of search_texts is exactly those       *)
(* entries and the alias table is not consulted.                           *)
(***************************************************************************)
C5_ExactPrecedence ==
    (Searched /\ Containing(Catalog, {lower(text_identifier)}) # <<>>) =>
        /\ matches = Containing(Catalog, {lower(text_identifier)})
        /\ ~fuzzy

\* the query is a variant of an alias that matches more entries than the
\* query itself does
C5_Witness ==
    /\ Searched
    /\ AliasStrings(lower(text_identifier)) # {}
    /\ matches # <<>>
    /\ ~fuzzy
    /\ Len(Containing(Catalog, AliasStrings(lower(text_identifier)))) > Len(matches)

(***************************************************************************)
(* C6.  Result policy: a search of a catalog ends in one of three          *)
(* outcomes by the number of candidates: none, the run is aborted with     *)
(* nothing extracted; one, that entry is the resolved text and nothing is  *)
(* prompted; two or more, the candidates are in catalog order, each entry  *)
(* at most once, and one is selected at the prompt.  No exception leaves   *)
(* main.                                                                   *)
(***************************************************************************)
C6_ResultPolicy ==
    Searched =>
        /\ pc # "crashed"
        /\ IsSubseq(matches, Catalog)
        /\ Len(matches) = 0 =>
            /\ pc = "no_match"
            /\ selected_text = NoText /\ text_urn = ""
            /\ prompts = 0 /\ table = <<>> /\ vocab_items = <<>>
        /\ Len(matches) = 1 =>
            /\ pc \in {"scrape", "done", "scrape_error"}
            /\ selected_text = matches[1] /\ text_urn = matches[1].urn
            /\ prompts = 0
        /\ Len(matches) >= 2 =>
            \/ pc = "prompt" /\ selected_text = NoText
            \/ pc = "done" /\ search_only /\ selected_text = NoText /\ prompts = 0
            \/ /\ pc \in {"scrape", "done", "scrape_error"}
               /\ prompts >= 1
               /\ \E k \in 1..Len(matches) : selected_text = matches[k]

\* two candidates are listed and the run waits at the prompt
C6_Witness ==
    /\ Searched
    /\ Len(matches) = 2
    /\ matches = Catalog
    /\ pc = "prompt"
    /\ prompts = 0

(***************************************************************************)
(* C7.  Fuzzy fallback: when no entry's title or author contains the       *)
(* lower-case query, the result is every entry whose title or author       *)
(* contains the key or a variant of an alias that has the query among its  *)
(* variants, and is empty when no alias has.                               *)
(***************************************************************************)
C7_FuzzyFallback ==
    (Searched /\ Containing(Catalog, {lower(text_identifier)}) = <<>>) =>
        /\ fuzzy
        /\ matches = Containing(Catalog, AliasStrings(lower(text_identifier)))
        /\ AliasStrings(lower(text_identifier)) = {} => matches = <<>>

\* the query itself matches nothing and an alias of it matches an entry
C7_Witness ==
    /\ Searched
    /\ Containing(Catalog, {lower(text_identifier)}) = <<>>
    /\ AliasStrings(lower(text_identifier)) # {}
    /\ Len(matches) = 1

(***************************************************************************)
(* C8.  Cache failures are absorbed: whenever the request for the catalog  *)
(* page succeeds, get_all_texts returns the fetched catalog; a failure to  *)
(* read or to write the cache is not surfaced.                             *)
(***************************************************************************)
C8_CacheFailuresAbsorbed ==
    (call.made /\ call.result.fetched /\ call.result.error # "RequestException") =>
        /\ call.result.outcome = "returned"
        /\ call.result.value.kind = "list"

(***************************************************************************)
(* C9.  Selection validity: an input that is no integer from 1 to the      *)
(* number of candidates leaves the run at the prompt with nothing          *)
(* selected; the loop is left only on an integer k in that range, and the  *)
(* text selected, and then extracted, is the k-th candidate.               *)
(***************************************************************************)
C9_SelectionValidity ==
    /\ pc = "prompt" => (selected_text = NoText /\ text_urn = "")
    /\ (pc = "prompt" /\ prompts > 0) => ~InputValid(choice, Len(matches))
    /\ (pc # "prompt" /\ choice # NoInput) =>
        /\ InputValid(choice, Len(matches))
        /\ pc \in {"scrape", "done", "scrape_error"}
        /\ selected_text = matches[choice.n]
        /\ text_urn = matches[choice.n].urn

\* after an input that was rejected, the second candidate is chosen and
\* its vocabulary extracted
C9_Witness ==
    /\ pc = "done"
    /\ prompts = 2
    /\ choice = [kind |-> "int", n |-> 2]
    /\ selected_text = matches[2]
    /\ Len(vocab_items) > 0

(***************************************************************************)
(* C10.  Catalog acquisition order: whenever the cache file holds a        *)
(* parsable catalog younger than 7 days, an empty one included,            *)
(* get_all_texts returns that catalog without a fetch and without a cache  *)
(* write; it fetches and saves only when _load_cache gives None.           *)
(***************************************************************************)
C10_FetchOnlyOnMiss ==
    (call.made /\ WellFormed(call.before) /\ Age(call.before) < 7) =>
        /\ call.result.cached # None
        /\ ~call.result.fetched
        /\ ~call.result.saved
        /\ call.result.value = ListValue(call.before.texts.list)
====
